---- MODULE Spec2Model ----
(***************************************************************************)
(* routingpy: the request executor Client._request of                      *)
(* routingpy/client_default.py, as a state machine.                        *)
(*                                                                         *)
(* One logical call is one outermost invocation of _request.  The method   *)
(* calls itself in tail position to retry, so a retry is modelled as the   *)
(* same frame going back to its first statement with retry_counter + 1     *)
(* and the same first_request_time.  The blocking points of the method     *)
(* (clock reads, time.sleep, the HTTP call) separate its steps:            *)
(*    enter   -> lines 101-106   first_request_time, deadline check        *)
(*    backoff -> lines 108-115   time.sleep on retries                     *)
(*    prepare -> lines 117-141   URL, options, method, dry run             *)
(*    send    -> lines 143-148   the HTTP call                             *)
(*    handle  -> lines 150-189   status check, classification, retry       *)
(* Time is counted in ticks of 1/TicksPerSecond second, from the start of  *)
(* the current logical call.                                               *)
(*                                                                         *)
(* SpecHere is the HereMaps adapter of routingpy/routers/heremaps.py on    *)
(* top of the executor, used by two callers at once: each of directions,   *)
(* isochrones and distance_matrix assigns self.base_url and then calls     *)
(* _request, which reads self.base_url when it issues the HTTP call.  The  *)
(* steps of a caller are cut where it touches the client object; the clock *)
(* is left out, a deadline check may pass or fail.                         *)
(***************************************************************************)
EXTENDS Integers, Sequences, FiniteSets, TLC

\* ------------------------------------------------------------------ bounds
\* Ticks of the model clock per second.
TicksPerSecond == 4
\* retry_timeout is drawn from 0..MaxRetryTimeout seconds.
MaxRetryTimeout == 2
\* random.random() is drawn from {0/JitterSteps, ..., (JitterSteps-1)/JitterSteps}.
JitterSteps == 2
\* A network call takes 0..MaxNetTicks ticks (the transport timeout bounds it).
MaxNetTicks == 1
\* Two consecutive clock reads are 0..MaxClockSkip ticks apart.
MaxClockSkip == 1
\* A scripted server answers N retriable statuses, then a success, N in 0..MaxScript.
MaxScript == 2
\* Logical calls made on one client in one behaviour.
MaxCalls == 2
\* Retries of one adapter operation in SpecHere.
MaxThreadRetries == 1
\* Adapter operations of one caller in SpecHere.
MaxThreadOps == 1
\* sources and destinations of distance_matrix hold 0..MaxIndices indices.
MaxIndices == 2
MaxEntries == 3
MaxFeatures == 2

\* ------------------------------------------------------------- vocabulary
None == -1
\* A server free to answer anything, and one that answers n retriable statuses
\* and then a success.
Unscripted == [scripted |-> FALSE, failures |-> 0]
Scripted(n) == [scripted |-> TRUE, failures |-> n]
Servers == {Unscripted} \cup {Scripted(n) : n \in 0..MaxScript}
NoRequest == <<0, 0>>
NoResponse == [status |-> 0, body |-> "none"]

Statuses == {200, 302, 400, 429, 500, 503}
Bodies == {"json", "over_quota", "garbage"}
Responses == [status : Statuses, body : Bodies]

\* The statuses the executor retries on without looking at the body.
RETRIABLE_STATUSES == {503}

\* The callers that share one HereMaps client in SpecHere.
Threads == {"A", "B"}
CallOf(t) == IF t = "A" THEN 1 ELSE 2

\* The adapter operations and the base URL each one assigns.
Operations == {"directions", "isochrones", "distance_matrix"}
Endpoint(op) ==
    CASE op = "directions" -> "route.api.here.com"
      [] op = "isochrones" -> "isoline.route.api.here.com"
      [] op = "distance_matrix" -> "matrix.route.api.here.com"

\* HereMaps._DEFAULT_BASE_URL
DEFAULT_BASE_URL == "route.api.here.com"

\* What the parser of an operation returns for a response body.
ParsedObject(op) ==
    CASE op = "directions" -> "Direction"
      [] op = "isochrones" -> "Isochrones"
      [] op = "distance_matrix" -> "Matrix"

\* The coordinates handed to distance_matrix, and its arguments sources and
\* destinations: None, or a list of indices into the coordinates.
Coordinates == <<"8.688641,49.420577", "8.680916,49.415776">>
NoIndices == [given |-> FALSE, idx |-> <<>>]
Indices(list) == [given |-> TRUE, idx |-> list]
IndexArgs ==
    {NoIndices} \cup
    {Indices(list) : list \in UNION {[1..n -> -(Len(Coordinates) + 1)..Len(Coordinates)] :
                                        n \in 0..MaxIndices}}

\* The credentials of a HereMaps client: None, or a string, the empty one included.
NoKey == "None"
Keys == {NoKey, "", "key"}

\* params of an operation by its entries app_code and app_id; no params before
\* the operation builds them.
NoParams == [app_code |-> "unset", app_id |-> "unset"]

IdleThread ==
    [pc |-> "idle", op |-> "none", dry_run |-> FALSE, sources |-> NoIndices,
     destinations |-> NoIndices, retry_counter |-> 0,
     outcome |-> "none", url |-> "none", invoked |-> 0, parsed |-> FALSE,
     result |-> "none", ops |-> 0, params |-> NoParams]

\* Keyword arguments for requests: a dict, as a function from the keys it holds
\* to their values.  The value of headers stands for a dict of headers by its
\* Content-Type entry, NoContentType for a dict without that entry.
NoContentType == "none"
KwargValues(k) ==
    CASE k = "headers" -> {"application/json", "application/x-www-form-urlencoded", NoContentType}
      [] k = "proxies" -> {"proxy1", "proxy2"}
Kwargs ==
    {kw \in UNION {[ks -> UNION {KwargValues(k) : k \in {"headers", "proxies"}}] :
                       ks \in SUBSET {"headers", "proxies"}} :
        \A k \in DOMAIN kw : kw[k] \in KwargValues(k)}
EmptyKwargs == [k \in {} |-> NoContentType]

\* self.requests_kwargs after construction: the caller's options with the headers
\* of the client, Content-Type among them.
ClientKwargs == {kw \in Kwargs : "headers" \in DOMAIN kw /\ kw["headers"] # NoContentType}
DefaultKwargs == [k \in {"headers"} |-> "application/json"]

\* The arguments url and get_params of _request.
Paths == {"/calculateroute.json", "/calculateisoline.json"}
GetParams == {"mode=fastest;car", "mode=shortest;pedestrian"}

\* response['response']['matrixEntry']: a list of entries, each with its
\* startIndex and the travelTime of its summary.
TravelTimes == {60, 90, 120}
MatrixEntries == [startIndex : 0..(Len(Coordinates) - 1), travelTime : TravelTimes]
MatrixEntryLists == UNION {[1..n -> MatrixEntries] : n \in 0..MaxEntries}

\* What _parse_matrix_json gives: the exception it raises, or the durations.
NotParsed == [raised |-> "unparsed", durations |-> <<>>]
Raises(exception) == [raised |-> exception, durations |-> <<>>]
Durations(rows) == [raised |-> "none", durations |-> rows]

\* The arguments of RoutingMode: mode_traffic is None, a string, or the bool
\* its docstring asks for; features is None or a dict, as the list of its
\* items in their order.
ModeTypes == {"fastest", "shortest"}
TransportTypes == {"car", "pedestrian"}
NoTraffic == "None"
BoolTraffic == "True"
Traffics == {NoTraffic, "enabled", "disabled", BoolTraffic}
FeatureItems == {<<"tollroad", "-1">>, <<"motorway", "-2">>}
NoFeatures == [given |-> FALSE, items |-> <<>>]
Features(items) == [given |-> TRUE, items |-> items]
FeatureArgs ==
    {NoFeatures} \cup
    {Features(items) : items \in {fs \in UNION {[1..n -> FeatureItems] : n \in 0..MaxFeatures} :
                                      \A i, j \in 1..Len(fs) : fs[i][1] = fs[j][1] => i = j}}

\* RoutingMode.__init__: the attribute features exists only when the argument
\* is not None.
RoutingMode(mode_type, mode_transport_type, mode_traffic, features) ==
    [mode_type |-> mode_type, mode_transport_type |-> mode_transport_type,
     mode_traffic |-> mode_traffic, has_features |-> features.given,
     features |-> features.items]
RoutingModes ==
    {RoutingMode(ty, tr, tf, fs) :
        ty \in ModeTypes, tr \in TransportTypes, tf \in Traffics, fs \in FeatureArgs}

\* What make_routing_mode gives: the exception it raises, or the string as the
\* list of its ';' segments, a segment as the list of its ',' items, an item as
\* the list of its ':' parts.
NotFormatted == [raised |-> "unformatted", segments |-> <<>>]
ModeRaises(exception) == [raised |-> exception, segments |-> <<>>]
ModeString(segments) == [raised |-> "none", segments |-> segments]
Plain(text) == <<<<text>>>>

RECURSIVE Pow(_, _)
Pow(b, e) == IF e = 0 THEN 1 ELSE b * Pow(b, e - 1)

Seconds(s) == s * TicksPerSecond

VARIABLES
    \* the client object
    retry_timeout,            \* self.retry_timeout, in seconds
    retry_over_query_limit,   \* self.retry_over_query_limit
    skip_api_error,           \* self.skip_api_error
    self_requests_kwargs,     \* self.requests_kwargs
    req,                      \* self._req: <<call, attempt>> of the recorded request
    base_url,                 \* self.base_url
    th,                       \* SpecHere: the frame of each caller's adapter operation
    \* the frame of the running _request
    pc,
    dry_run,
    post_params,              \* TRUE when post_params is not None
    url,
    get_params,
    requests_kwargs,          \* requests_kwargs or {}
    final_requests_kwargs,
    first_request_time,
    retry_counter,
    elapsed,
    method,
    response,
    outcome,
    \* the environment
    now,                      \* the clock, in ticks
    server,                   \* the server this logical call talks to
    netResult,                \* how the last HTTP call ended
    lastRetry,                \* what the last retry of this logical call was caused by
    netCalls,                 \* HTTP calls issued by the current logical call
    sleeps,                   \* time.sleep calls of the current logical call
    warnings,                 \* warnings.warn calls of the current logical call
    callsMade,                \* logical calls started so far
    \* the HereMaps adapter
    app_id,                   \* self.app_id
    app_code,                 \* self.app_code
    construction,             \* what HereMaps(...) gave: the client, or the error raised
    mtx_objects,              \* response['response']['matrixEntry'] handed to the parser
    matrix,                   \* what _parse_matrix_json gave for it
    mode,                     \* a RoutingMode object
    routing_mode              \* what mode.make_routing_mode() gave

clientVars == <<retry_timeout, retry_over_query_limit, skip_api_error, self_requests_kwargs>>
argVars == <<url, get_params, requests_kwargs>>
frameVars == <<pc, dry_run, post_params, argVars, final_requests_kwargs, first_request_time,
               retry_counter, elapsed, method, response, outcome>>
envVars == <<now, server, netResult, lastRetry, netCalls, sleeps, warnings, callsMade>>
hereVars == <<base_url, th>>
keyVars == <<app_id, app_code, construction>>
parserVars == <<mtx_objects, matrix>>
modeVars == <<mode, routing_mode>>
adapterVars == <<keyVars, parserVars, modeVars>>
vars == <<clientVars, req, frameVars, envVars, hereVars, adapterVars>>

\* ------------------------------------------------------------ construction
\* Client(base_url, ..., requests_kwargs=kw, ...)
Construct(kw) ==
    /\ retry_timeout \in 0..MaxRetryTimeout
    /\ retry_over_query_limit \in BOOLEAN
    /\ skip_api_error \in BOOLEAN
    /\ self_requests_kwargs = kw
    /\ req = NoRequest
    /\ base_url = DEFAULT_BASE_URL
    /\ th = [t \in Threads |-> IdleThread]
    /\ pc = "idle"
    /\ dry_run = FALSE
    /\ post_params = FALSE
    /\ url = "none"
    /\ get_params = "none"
    /\ requests_kwargs = EmptyKwargs
    /\ final_requests_kwargs = EmptyKwargs
    /\ first_request_time = None
    /\ retry_counter = 0
    /\ elapsed = 0
    /\ method = "none"
    /\ response = NoResponse
    /\ outcome = "none"
    /\ now = 0
    /\ server = Unscripted
    /\ netResult = "none"
    /\ lastRetry = "none"
    /\ netCalls = 0
    /\ sleeps = 0
    /\ warnings = 0
    /\ callsMade = 0

\* raised when either credential is missing.
HereMaps_eitherMissing(id, code, kw) ==
    /\ app_id = id
    /\ app_code = code
    /\ construction = IF id = NoKey \/ code = NoKey THEN "KeyError" ELSE "HereMaps"
    /\ Construct(kw)

\* HereMaps(app_id=id, app_code=code, requests_kwargs=kw): KeyError when both
\* credentials are None, otherwise both are stored as given and the client is
\* constructed.
HereMaps(id, code, kw) ==
    /\ app_id = id
    /\ app_code = code
    /\ construction = IF id = NoKey /\ code = NoKey THEN "KeyError" ELSE "HereMaps"
    /\ Construct(kw)

\* No response handed to a parser and no RoutingMode made.
AdapterUnused ==
    /\ mtx_objects = <<>>
    /\ matrix = NotParsed
    /\ mode = RoutingMode("fastest", "car", NoTraffic, NoFeatures)
    /\ routing_mode = NotFormatted

Init == HereMaps("key", "key", DefaultKwargs) /\ AdapterUnused

\* --------------------------------------------------------------- _request
\* The caller invokes _request(url, get_params, post_params,
\* requests_kwargs=..., dry_run=...): first_request_time=None and
\* retry_counter=0 are the defaults, requests_kwargs=None stands for {}.
Request(dry, post, srv, path, params, kw) ==
    /\ pc \in {"idle", "done"}
    /\ callsMade < MaxCalls
    /\ callsMade' = callsMade + 1
    /\ pc' = "enter"
    /\ dry_run' = dry
    /\ post_params' = post
    /\ url' = path
    /\ get_params' = params
    /\ requests_kwargs' = kw
    /\ final_requests_kwargs' = EmptyKwargs
    /\ first_request_time' = None
    /\ retry_counter' = 0
    /\ elapsed' = 0
    /\ method' = "none"
    /\ response' = NoResponse
    /\ outcome' = "none"
    /\ now' = 0
    /\ server' = srv
    /\ netResult' = "none"
    /\ lastRetry' = "none"
    /\ netCalls' = 0
    /\ sleeps' = 0
    /\ warnings' = 0
    /\ UNCHANGED <<hereVars, clientVars, adapterVars, req>>

\* The deadline compared with one second of slack.
DeadlineExceeded_slack(el) == el > Seconds(retry_timeout + 1)

\* The deadline checked on retries only.
DeadlineExceeded_retriesOnly(el) == retry_counter > 0 /\ el > Seconds(retry_timeout)

\* The deadline taken as twice retry_timeout.
DeadlineExceeded_doubled(el) == el > 2 * Seconds(retry_timeout)

\* elapsed > self.retry_timeout
DeadlineExceeded(el) == el > Seconds(retry_timeout)

\* Lines 101-106.  d is the time between the previous statement and the clock
\* read of line 104 (on the first invocation, between the reads of lines 102
\* and 104).
Enter(d) ==
    /\ pc = "enter"
    /\ LET frt == IF first_request_time = None THEN now ELSE first_request_time
           el == (now + d) - frt
       IN /\ first_request_time' = frt
          /\ now' = now + d
          /\ elapsed' = el
          /\ IF DeadlineExceeded(el)
             THEN /\ pc' = "done"
                  /\ outcome' = "Timeout"
             ELSE /\ pc' = "backoff"
                  /\ outcome' = outcome
    /\ UNCHANGED <<hereVars, argVars, final_requests_kwargs, clientVars, adapterVars, req, dry_run, post_params, retry_counter, method, response,
                   server, netResult, lastRetry, netCalls, sleeps, warnings, callsMade>>

\* The exponent taken as retry_counter instead of retry_counter - 1.
SleepTicks_exponent(n, r) ==
    (TicksPerSecond * Pow(3, n) * (2 * r + JitterSteps))
        \div (Pow(2, n) * 2 * JitterSteps)

\* delay_seconds * (random.random() + 0.5), in ticks, with
\* delay_seconds = 1.5 ** (retry_counter - 1) and random.random() = r / JitterSteps.
SleepTicks(n, r) ==
    (TicksPerSecond * Pow(3, n - 1) * (2 * r + JitterSteps))
        \div (Pow(2, n - 1) * 2 * JitterSteps)

\* The deadline checked a second time, after the sleep.
Backoff_checksAgain(r) ==
    /\ pc = "backoff"
    /\ IF retry_counter > 0
       THEN /\ now' = now + SleepTicks(retry_counter, r)
            /\ sleeps' = sleeps + 1
       ELSE /\ r = 0
            /\ UNCHANGED <<now, sleeps>>
    /\ IF DeadlineExceeded(now' - first_request_time)
       THEN pc' = "done" /\ outcome' = "Timeout"
       ELSE pc' = "prepare" /\ outcome' = outcome
    /\ UNCHANGED <<hereVars, argVars, final_requests_kwargs, clientVars, adapterVars, req, dry_run, post_params, first_request_time, retry_counter,
                   elapsed, method, response, server, netResult, lastRetry,
                   netCalls, warnings, callsMade>>

\* A sleep before the first attempt as well.
Backoff_sleepsOnFirstAttempt(r) ==
    /\ pc = "backoff"
    /\ now' = now + SleepTicks(retry_counter + 1, r)
    /\ sleeps' = sleeps + 1
    /\ pc' = "prepare"
    /\ UNCHANGED <<hereVars, argVars, final_requests_kwargs, clientVars, adapterVars, req, dry_run, post_params, first_request_time, retry_counter,
                   elapsed, method, response, outcome, server, netResult, lastRetry,
                   netCalls, warnings, callsMade>>

\* Lines 108-115.
Backoff(r) ==
    /\ pc = "backoff"
    /\ IF retry_counter > 0
       THEN /\ now' = now + SleepTicks(retry_counter, r)
            /\ sleeps' = sleeps + 1
       ELSE /\ r = 0
            /\ UNCHANGED <<now, sleeps>>
    /\ pc' = "prepare"
    /\ UNCHANGED <<hereVars, argVars, final_requests_kwargs, clientVars, adapterVars, req, dry_run, post_params, first_request_time, retry_counter,
                   elapsed, method, response, outcome, server, netResult, lastRetry,
                   netCalls, warnings, callsMade>>

\* requests_method: self._session.post when post_params is not None.
RequestsMethod(post) == IF post THEN "POST" ELSE "GET"

\* dry_run ignored.
PrepareExit_noDryRun(dry) == "send"

\* Lines 134-143: a dry run prints and returns, anything else goes on to the
\* HTTP call.
PrepareExit(dry) == IF dry THEN "done" ELSE "send"

\* Request-level options dropped where the client has the key.
MergeKwargs_clientWins(client, request) ==
    [k \in DOMAIN client \cup DOMAIN request |->
        IF k \in DOMAIN client THEN client[k] ELSE request[k]]

\* Line 122: dict(self.requests_kwargs, **requests_kwargs)
MergeKwargs(client, request) ==
    [k \in DOMAIN client \cup DOMAIN request |->
        IF k \in DOMAIN request THEN request[k] ELSE client[k]]

\* Line 128: final_requests_kwargs['headers']['Content-Type'], a KeyError when
\* either key is missing.
ContentType(kw) ==
    IF "headers" \in DOMAIN kw /\ kw["headers"] # NoContentType
    THEN kw["headers"]
    ELSE "KeyError"

\* Lines 128-132: the keyword argument that carries post_params.
BodyKey(kw) == IF ContentType(kw) = "application/json" THEN "json" ELSE "data"

\* Lines 129 and 132: final_requests_kwargs[key] = post_params
WithBody(kw) ==
    [k \in DOMAIN kw \cup {BodyKey(kw)} |-> IF k = BodyKey(kw) THEN "post_params" ELSE kw[k]]

\* the options merged and the body entry added in self.requests_kwargs itself.
Prepare_mergesInPlace ==
    /\ pc = "prepare"
    /\ method' = RequestsMethod(post_params)
    /\ LET merged == MergeKwargs(self_requests_kwargs, requests_kwargs)
       IN /\ final_requests_kwargs' = IF post_params THEN WithBody(merged) ELSE merged
          /\ self_requests_kwargs' = final_requests_kwargs'
          /\ pc' = PrepareExit(dry_run)
          /\ outcome' = IF PrepareExit(dry_run) = "done" THEN "None" ELSE outcome
    /\ UNCHANGED <<hereVars, argVars, retry_timeout, retry_over_query_limit, skip_api_error,
                   adapterVars, req, dry_run, post_params, first_request_time,
                   retry_counter, elapsed, response, envVars>>

\* Lines 117-141.
Prepare ==
    /\ pc = "prepare"
    /\ method' = RequestsMethod(post_params)
    /\ LET merged == MergeKwargs(self_requests_kwargs, requests_kwargs)
       IN IF post_params /\ ContentType(merged) = "KeyError"
          THEN /\ final_requests_kwargs' = merged
               /\ pc' = "done"
               /\ outcome' = "KeyError"
          ELSE /\ final_requests_kwargs' = IF post_params THEN WithBody(merged) ELSE merged
               /\ pc' = PrepareExit(dry_run)
               /\ outcome' = IF PrepareExit(dry_run) = "done" THEN "None" ELSE outcome
    /\ UNCHANGED <<hereVars, argVars, clientVars, adapterVars, req, dry_run, post_params, first_request_time,
                   retry_counter, elapsed, response, envVars>>

\* What the server answers to the next HTTP call of this logical call.
ServerAnswers(resp) ==
    \/ ~server.scripted
    \/ /\ server.scripted
       /\ resp = IF netCalls < server.failures
                 THEN [status |-> 503, body |-> "garbage"]
                 ELSE [status |-> 200, body |-> "json"]

\* requests.exceptions.Timeout not caught.
TransportOutcome_uncaught(failure) ==
    IF failure = "timeout" THEN "requests.Timeout" ELSE "ConnectionError"

\* The exception that leaves the try block of lines 143-148 when the HTTP call
\* raises: requests.exceptions.Timeout is caught and replaced, nothing else is.
TransportOutcome(failure) ==
    IF failure = "timeout" THEN "Timeout" ELSE "ConnectionError"

\* Lines 143-146: the HTTP call returns a response after d ticks.
SendResponse(resp, d) ==
    /\ pc = "send"
    /\ ServerAnswers(resp)
    /\ netCalls' = netCalls + 1
    /\ now' = now + d
    /\ netResult' = "response"
    /\ response' = resp
    /\ req' = <<callsMade, retry_counter>>
    /\ pc' = "handle"
    /\ UNCHANGED <<hereVars, argVars, final_requests_kwargs, clientVars, adapterVars, dry_run, post_params, first_request_time, retry_counter,
                   elapsed, method, outcome, server, lastRetry, sleeps, warnings, callsMade>>

\* self._req assigned although the HTTP call raised.
SendFails_recordsRequest(failure, d) ==
    /\ pc = "send"
    /\ ~server.scripted
    /\ netCalls' = netCalls + 1
    /\ now' = now + d
    /\ netResult' = failure
    /\ outcome' = TransportOutcome(failure)
    /\ req' = <<callsMade, retry_counter>>
    /\ pc' = "done"
    /\ UNCHANGED <<hereVars, argVars, final_requests_kwargs, clientVars, adapterVars, dry_run, post_params, first_request_time, retry_counter,
                   elapsed, method, response, server, lastRetry, sleeps, warnings, callsMade>>

\* Lines 143-148: the HTTP call raises after d ticks.
SendFails(failure, d) ==
    /\ pc = "send"
    /\ ~server.scripted
    /\ netCalls' = netCalls + 1
    /\ now' = now + d
    /\ netResult' = failure
    /\ outcome' = TransportOutcome(failure)
    /\ pc' = "done"
    /\ UNCHANGED <<hereVars, argVars, final_requests_kwargs, clientVars, adapterVars, req, dry_run, post_params, first_request_time, retry_counter,
                   elapsed, method, response, server, lastRetry, sleeps, warnings, callsMade>>

\* self._get_body(response): the body, or the error the classifier raises.
GetBody(resp) ==
    CASE resp.body = "garbage" -> "JSONParseError"
      [] resp.status = 429 /\ resp.body = "over_quota" -> "OverQueryLimit"
      [] resp.status = 429 -> "RetriableRequest"
      [] resp.status >= 400 /\ resp.status < 500 -> "RouterApiError"
      [] resp.status >= 500 -> "RouterServerError"
      [] resp.status # 200 -> "RouterError"
      [] OTHER -> "Success"

\* No retry on the status code.
StatusRetry_never(resp) == FALSE

\* The body decoded before the status code is looked at.
StatusRetry_afterDecoding(resp) == resp.status \in RETRIABLE_STATUSES /\ resp.body # "garbage"

\* response.status_code in _RETRIABLE_STATUSES
StatusRetry(resp) == resp.status \in RETRIABLE_STATUSES

\* skip_api_error ignored.
ApiErrorOutcome_alwaysRaised == "RouterApiError"

\* Lines 168-176: the result of the except RouterApiError clause.
ApiErrorOutcome == IF skip_api_error THEN "None" ELSE "RouterApiError"

\* OverQueryLimit retried whatever retry_over_query_limit says.
Reraised_never(kind) == FALSE

\* OverQueryLimit re-raised whatever retry_over_query_limit says.
Reraised_always(kind) == kind = "OverQueryLimit"

\* Every RetriableRequest re-raised unless retry_over_query_limit is set.
Reraised_anyKind(kind) == ~retry_over_query_limit

\* Line 179: the RetriableRequest is re-raised instead of retried.
Reraised(kind) == kind = "OverQueryLimit" /\ ~retry_over_query_limit

\* RouterServerError caught along with the retriable requests.
IsRetriableRequest_serverErrors(kind) ==
    kind \in {"OverQueryLimit", "RetriableRequest", "RouterServerError"}

\* Line 178: except exceptions.RetriableRequest, of which OverQueryLimit is a
\* subclass.
IsRetriableRequest(kind) == kind \in {"OverQueryLimit", "RetriableRequest"}

\* A retry without its warning.
Retry_silent(cause) ==
    /\ lastRetry' = cause
    /\ warnings' = warnings
    /\ retry_counter' = retry_counter + 1
    /\ pc' = "enter"
    /\ outcome' = outcome
    /\ dry_run' = FALSE
    /\ UNCHANGED <<post_params, argVars>>

\* A retry that goes straight to the HTTP call.
Retry_straightToSend(cause) ==
    /\ lastRetry' = cause
    /\ warnings' = warnings + 1
    /\ retry_counter' = retry_counter + 1
    /\ pc' = "send"
    /\ outcome' = outcome
    /\ dry_run' = FALSE
    /\ UNCHANGED <<post_params, argVars>>

\* Only the retries on a status counted.
Retry_countsStatusOnly(cause) ==
    /\ lastRetry' = cause
    /\ warnings' = warnings + 1
    /\ retry_counter' = IF cause = "status" THEN retry_counter + 1 ELSE retry_counter
    /\ pc' = "enter"
    /\ outcome' = outcome
    /\ dry_run' = FALSE
    /\ UNCHANGED <<post_params, argVars>>

\* requests_kwargs not passed on to the retry.
Retry_dropsKwargs(cause) ==
    /\ lastRetry' = cause
    /\ warnings' = warnings + 1
    /\ retry_counter' = retry_counter + 1
    /\ pc' = "enter"
    /\ outcome' = outcome
    /\ dry_run' = FALSE
    /\ requests_kwargs' = EmptyKwargs
    /\ UNCHANGED <<post_params, url, get_params>>

\* The recursive call of lines 159-161 and 187-189: url, get_params,
\* post_params, first_request_time, retry_counter + 1 and requests_kwargs are
\* passed on, dry_run is not.
Retry(cause) ==
    /\ lastRetry' = cause
    /\ warnings' = warnings + 1
    /\ retry_counter' = retry_counter + 1
    /\ pc' = "enter"
    /\ outcome' = outcome
    /\ dry_run' = FALSE
    /\ UNCHANGED <<post_params, argVars>>

Finish(result) ==
    /\ lastRetry' = lastRetry
    /\ pc' = "done"
    /\ outcome' = result
    /\ retry_counter' = retry_counter
    /\ UNCHANGED <<dry_run, post_params, argVars>>

\* Lines 150-189.
HandleResponse ==
    /\ pc = "handle"
    /\ IF StatusRetry(response)
       THEN Retry("status")
       ELSE LET kind == GetBody(response)
            IN CASE kind = "Success" -> Finish("Success") /\ warnings' = warnings
                 [] kind = "RouterApiError" ->
                        /\ Finish(ApiErrorOutcome)
                        /\ warnings' = IF skip_api_error THEN warnings + 1 ELSE warnings
                 [] IsRetriableRequest(kind) ->
                        IF Reraised(kind)
                        THEN Finish(kind) /\ warnings' = warnings
                        ELSE Retry(kind)
                 [] OTHER -> Finish(kind) /\ warnings' = warnings
    /\ UNCHANGED <<hereVars, final_requests_kwargs, clientVars, adapterVars, req, first_request_time, elapsed,
                   method, response, now, server, netResult, netCalls, sleeps, callsMade>>

Next ==
    \/ \E dry \in BOOLEAN, post \in BOOLEAN, srv \in Servers :
           Request(dry, post, srv, "/calculateroute.json", "mode=fastest;car", EmptyKwargs)
    \/ \E d \in 0..MaxClockSkip : Enter(d)
    \/ \E r \in 0..(JitterSteps - 1) : Backoff(r)
    \/ Prepare
    \/ \E resp \in Responses, d \in 0..MaxNetTicks : SendResponse(resp, d)
    \/ \E failure \in {"timeout", "error"}, d \in 0..MaxNetTicks : SendFails(failure, d)
    \/ HandleResponse

Spec == Init /\ [][Next]_vars

\* ----------------------------------------------------------------- HereMaps
\* Line 742 (1021, 1317): the parser returns None for no response.
ParseSkipped_never(result) == FALSE

ParseSkipped(result) == result = "None"

\* What the operation hands to its caller once _request is over: the exception
\* that left _request, None for no result, the parsed object otherwise.
AdapterResult(op, result) ==
    CASE result \notin {"None", "Success"} -> [parsed |-> FALSE, result |-> result]
      [] ParseSkipped(result) -> [parsed |-> FALSE, result |-> "None"]
      [] result = "None" -> [parsed |-> TRUE, result |-> "TypeError"]
      [] OTHER -> [parsed |-> TRUE, result |-> ParsedObject(op)]

\* Caller t leaves _request with result, and the operation with what its parser
\* makes of it.
Returned(t, result) ==
    LET a == AdapterResult(th[t].op, result)
    IN [th[t] EXCEPT !.pc = "returned", !.outcome = result,
                     !.parsed = a.parsed, !.result = a.result]

\* Lines 150-189 for a response: "retry", or what _request returns or raises.
Verdict(resp) ==
    IF StatusRetry(resp)
    THEN "retry"
    ELSE LET kind == GetBody(resp)
         IN CASE kind = "RouterApiError" -> ApiErrorOutcome
              [] IsRetriableRequest(kind) -> IF Reraised(kind) THEN kind ELSE "retry"
              [] OTHER -> kind

\* coordinates[i] raises IndexError.
OutOfRange(i) == i >= Len(Coordinates) \/ i < -Len(Coordinates)

\* Lines 1200-1216 (1218-1237): the loop over enumerate(indices), which raises
\* TypeError for None and IndexError at the first index out of range.
CheckIndices(ix) ==
    IF ~ix.given
    THEN "TypeError"
    ELSE IF \E i \in 1..Len(ix.idx) : OutOfRange(ix.idx[i])
         THEN "IndexError"
         ELSE "ok"

\* destinations not looked at.
CheckArguments_sourcesOnly(op, src, dst) ==
    IF op # "distance_matrix" THEN "ok" ELSE CheckIndices(src)

\* Lines 1200-1237: distance_matrix goes through sources, then destinations; the
\* other operations take neither.
CheckArguments(op, src, dst) ==
    IF op # "distance_matrix"
    THEN "ok"
    ELSE IF CheckIndices(src) # "ok" THEN CheckIndices(src) ELSE CheckIndices(dst)

\* self.base_url left as it is.
Operation_keepsBaseUrl(t, op, dry, src, dst) ==
    /\ th[t].pc \in {"idle", "returned"}
    /\ th[t].ops < MaxThreadOps
    /\ base_url' = base_url
    /\ LET started == [IdleThread EXCEPT !.op = op, !.dry_run = dry, !.sources = src,
                                         !.destinations = dst, !.ops = th[t].ops + 1]
       IN th' = [th EXCEPT ![t] =
                    IF CheckArguments(op, src, dst) = "ok"
                    THEN [started EXCEPT !.pc = "enter", !.invoked = 1]
                    ELSE [started EXCEPT !.pc = "returned",
                                         !.result = CheckArguments(op, src, dst)]]
    /\ UNCHANGED <<clientVars, adapterVars, req, frameVars, envVars>>

\* Caller t starts directions, isochrones or distance_matrix: the operation
\* assigns self.base_url, builds its parameters, raising where an argument does
\* not allow it, and calls _request.
Operation(t, op, dry, src, dst) ==
    /\ construction = "HereMaps"
    /\ th[t].pc \in {"idle", "returned"}
    /\ th[t].ops < MaxThreadOps
    /\ base_url' = Endpoint(op)
    /\ LET started == [IdleThread EXCEPT !.op = op, !.dry_run = dry, !.sources = src,
                                         !.destinations = dst, !.ops = th[t].ops + 1,
                                         !.params = [app_code |-> app_code, app_id |-> app_id]]
       IN th' = [th EXCEPT ![t] =
                    IF CheckArguments(op, src, dst) = "ok"
                    THEN [started EXCEPT !.pc = "enter", !.invoked = 1]
                    ELSE [started EXCEPT !.pc = "returned",
                                         !.result = CheckArguments(op, src, dst)]]
    /\ UNCHANGED <<clientVars, adapterVars, req, frameVars, envVars>>

\* Lines 101-141 of caller t's _request: the deadline check, late when the clock
\* shows elapsed > retry_timeout, the sleep of a retry, the dry run.
ThreadEnter(t, late) ==
    /\ th[t].pc = "enter"
    /\ th' = [th EXCEPT ![t] =
                 IF late
                 THEN Returned(t, "Timeout")
                 ELSE IF PrepareExit(th[t].dry_run) = "done"
                      THEN Returned(t, "None")
                      ELSE [th[t] EXCEPT !.pc = "send"]]
    /\ UNCHANGED <<clientVars, adapterVars, req, base_url, frameVars, envVars>>

\* Lines 143-189 of caller t's _request: the HTTP call goes to self.base_url as
\* it is now and is answered by resp.
ThreadSend(t, resp) ==
    /\ th[t].pc = "send"
    /\ Verdict(resp) = "retry" => th[t].retry_counter < MaxThreadRetries
    /\ req' = <<CallOf(t), th[t].retry_counter>>
    /\ th' = [th EXCEPT ![t] =
                 IF Verdict(resp) = "retry"
                 THEN [th[t] EXCEPT !.pc = "enter", !.url = base_url,
                                    !.retry_counter = th[t].retry_counter + 1]
                 ELSE [Returned(t, Verdict(resp)) EXCEPT !.url = base_url]]
    /\ UNCHANGED <<clientVars, adapterVars, base_url, frameVars, envVars>>

\* Lines 143-148 of caller t's _request: the HTTP call to self.base_url raises.
ThreadSendFails(t, failure) ==
    /\ th[t].pc = "send"
    /\ th' = [th EXCEPT ![t] = [Returned(t, TransportOutcome(failure)) EXCEPT !.url = base_url]]
    /\ UNCHANGED <<clientVars, adapterVars, req, base_url, frameVars, envVars>>

InitHere ==
    /\ Init
    /\ retry_timeout = MaxRetryTimeout

NextHere ==
    \/ \E t \in Threads, op \in Operations, dry \in BOOLEAN :
           Operation(t, op, dry, Indices(<<0>>), Indices(<<1>>))
    \/ \E t \in Threads, late \in BOOLEAN : ThreadEnter(t, late)
    \/ \E t \in Threads, resp \in Responses : ThreadSend(t, resp)
    \/ \E t \in Threads, failure \in {"timeout", "error"} : ThreadSendFails(t, failure)

SpecHere == InitHere /\ [][NextHere]_vars

\* Sequential use of the client: an operation starts when none is running.
SequentialOperation(t, op, dry) ==
    /\ \A u \in Threads : th[u].pc \in {"idle", "returned"}
    /\ Operation(t, op, dry, Indices(<<0>>), Indices(<<1>>))

NextSequential ==
    \/ \E t \in Threads, op \in Operations, dry \in BOOLEAN : SequentialOperation(t, op, dry)
    \/ \E t \in Threads, late \in BOOLEAN : ThreadEnter(t, late)
    \/ \E t \in Threads, resp \in Responses : ThreadSend(t, resp)
    \/ \E t \in Threads, failure \in {"timeout", "error"} : ThreadSendFails(t, failure)

SpecSequential == InitHere /\ [][NextSequential]_vars

\* One call of distance_matrix with any sources and destinations.
InitMatrix ==
    /\ InitHere
    /\ ~retry_over_query_limit
    /\ ~skip_api_error

MatrixOperation(dry, src, dst) ==
    /\ th["A"].pc = "idle"
    /\ Operation("A", "distance_matrix", dry, src, dst)

NextMatrix ==
    \/ /\ th["A"].pc = "idle"
       /\ \E dry \in BOOLEAN, src \in IndexArgs, dst \in IndexArgs :
              MatrixOperation(dry, src, dst)
    \/ \E late \in BOOLEAN : ThreadEnter("A", late)
    \/ \E resp \in Responses : ThreadSend("A", resp)
    \/ \E failure \in {"timeout", "error"} : ThreadSendFails("A", failure)

SpecMatrix == InitMatrix /\ [][NextMatrix]_vars

\* ------------------------------------------------------- a server that is down
\* The executor against a server whose every answer is retried, a retriable
\* status or a retried RetriableRequest.  Once _request is invoked its frame
\* runs on: the clock reads, the sleep and the HTTP call all return.
SendRetried(resp, d) ==
    /\ Verdict(resp) = "retry"
    /\ SendResponse(resp, d)

AttemptStep ==
    \/ \E d \in 0..MaxClockSkip : Enter(d)
    \/ \E r \in 0..(JitterSteps - 1) : Backoff(r)
    \/ Prepare
    \/ \E resp \in Responses, d \in 0..MaxNetTicks : SendRetried(resp, d)
    \/ HandleResponse

NextDown ==
    \/ \E dry \in BOOLEAN, post \in BOOLEAN :
           Request(dry, post, Unscripted, "/calculateroute.json", "mode=fastest;car", EmptyKwargs)
    \/ AttemptStep

SpecDown == Init /\ [][NextDown]_vars /\ WF_vars(AttemptStep)

\* ------------------------------------------------- the arguments of _request
\* One logical call of the executor with any path, parameters and options on a
\* client built with any options, against a server that answers some retriable
\* statuses and then a success, with a clock that stands still outside the sleeps.
InitArgs ==
    /\ \E kw \in ClientKwargs : HereMaps("key", "key", kw)
    /\ AdapterUnused
    /\ retry_timeout = MaxRetryTimeout
    /\ ~retry_over_query_limit
    /\ ~skip_api_error

FirstRequest(dry, post, srv, path, params, kw) ==
    /\ callsMade = 0
    /\ Request(dry, post, srv, path, params, kw)

NextArgs ==
    \/ /\ callsMade = 0
       /\ \E dry \in BOOLEAN, post \in BOOLEAN, n \in 0..MaxScript,
             path \in Paths, params \in GetParams, kw \in Kwargs :
              FirstRequest(dry, post, Scripted(n), path, params, kw)
    \/ Enter(0)
    \/ Backoff(0)
    \/ Prepare
    \/ \E resp \in Responses : SendResponse(resp, 0)
    \/ HandleResponse

SpecArgs == InitArgs /\ [][NextArgs]_vars

\* ------------------------------------------------------- _parse_matrix_json
\* The loop over enumerate(mtx_objects) from entry index on (1 is the first),
\* and the statements after it.  next_ is the position of the entry it holds,
\* None before any is assigned: it is assigned for every entry but the last,
\* and next_['startIndex'] raises TypeError while it is None.
RECURSIVE MatrixLoop(_, _, _, _, _)
MatrixLoop(mtx, index, next_, durations, index_durations) ==
    IF index > Len(mtx)
    THEN Durations(Append(durations, index_durations))
    ELSE LET nxt == IF index < Len(mtx) THEN index + 1 ELSE next_
             row == Append(index_durations, mtx[index].travelTime)
         IN IF nxt = None
            THEN Raises("TypeError")
            ELSE IF mtx[nxt].startIndex > mtx[index].startIndex
                 THEN MatrixLoop(mtx, index + 1, nxt, Append(durations, row), <<>>)
                 ELSE MatrixLoop(mtx, index + 1, nxt, durations, row)

\* _parse_matrix_json(response) for a response that is not None.
ParseMatrixJson(mtx) == MatrixLoop(mtx, 1, None, <<>>, <<>>)

\* The parser is applied to the matrixEntry list of the response.
ParseMatrix ==
    /\ matrix = NotParsed
    /\ matrix' = ParseMatrixJson(mtx_objects)
    /\ UNCHANGED <<clientVars, req, frameVars, envVars, hereVars, keyVars, mtx_objects, modeVars>>

InitParser ==
    /\ HereMaps("key", "key", DefaultKwargs)
    /\ retry_timeout = MaxRetryTimeout
    /\ ~retry_over_query_limit
    /\ ~skip_api_error
    /\ mtx_objects \in MatrixEntryLists
    /\ matrix = NotParsed
    /\ mode = RoutingMode("fastest", "car", NoTraffic, NoFeatures)
    /\ routing_mode = NotFormatted

NextParser == ParseMatrix

SpecParser == InitParser /\ [][NextParser]_vars

\* --------------------------------------------------------------- RoutingMode
\* The features segment: one item 'feature:weight' for each item of the dict.
FeaturesSegment(features) == [i \in 1..Len(features) |-> <<features[i][1], features[i][2]>>]

\* make_routing_mode: the two types, 'traffic:' + mode_traffic when it is not
\* None, which raises TypeError for a bool, then self.features, which raises
\* AttributeError when the attribute was never set.
MakeRoutingMode(self) ==
    LET types == <<Plain(self.mode_type), Plain(self.mode_transport_type)>>
        withTraffic == IF self.mode_traffic # NoTraffic
                       THEN Append(types, <<<<"traffic", self.mode_traffic>>>>)
                       ELSE types
    IN IF self.mode_traffic = BoolTraffic
       THEN ModeRaises("TypeError")
       ELSE IF ~self.has_features
            THEN ModeRaises("AttributeError")
            ELSE ModeString(Append(withTraffic, FeaturesSegment(self.features)))

\* mode.make_routing_mode()
FormatMode ==
    /\ routing_mode = NotFormatted
    /\ routing_mode' = MakeRoutingMode(mode)
    /\ UNCHANGED <<clientVars, req, frameVars, envVars, hereVars, keyVars, parserVars, mode>>

InitRoutingMode ==
    /\ HereMaps("key", "key", DefaultKwargs)
    /\ retry_timeout = MaxRetryTimeout
    /\ ~retry_over_query_limit
    /\ ~skip_api_error
    /\ mtx_objects = <<>>
    /\ matrix = NotParsed
    /\ mode \in RoutingModes
    /\ routing_mode = NotFormatted

NextRoutingMode == FormatMode

SpecRoutingMode == InitRoutingMode /\ [][NextRoutingMode]_vars

\* ------------------------------------------------------------- credentials
\* HereMaps constructed with any credentials, and one caller of its operations.
InitKeys ==
    /\ \E id \in Keys, code \in Keys : HereMaps(id, code, DefaultKwargs)
    /\ AdapterUnused
    /\ retry_timeout = MaxRetryTimeout
    /\ ~retry_over_query_limit
    /\ ~skip_api_error

NextKeys ==
    \/ \E op \in Operations, dry \in BOOLEAN :
           Operation("A", op, dry, Indices(<<0>>), Indices(<<1>>))
    \/ \E late \in BOOLEAN : ThreadEnter("A", late)
    \/ \E resp \in Responses : ThreadSend("A", resp)
    \/ \E failure \in {"timeout", "error"} : ThreadSendFails("A", failure)

SpecKeys == InitKeys /\ [][NextKeys]_vars

\* ------------------------------------------------------- a POST, then a GET
\* Two logical calls on one client, each with any request-level options: the
\* first one with post_params, the second one without.
PostThenGet(dry, srv, kw) ==
    /\ callsMade \in {0, 1}
    /\ Request(dry, callsMade = 0, srv, "/calculateroute.json", "mode=fastest;car", kw)

NextTwoCalls ==
    \/ /\ pc \in {"idle", "done"}
       /\ \E dry \in BOOLEAN, n \in 0..MaxScript, kw \in Kwargs : PostThenGet(dry, Scripted(n), kw)
    \/ Enter(0)
    \/ Backoff(0)
    \/ Prepare
    \/ \E resp \in Responses : SendResponse(resp, 0)
    \/ HandleResponse

SpecTwoCalls == InitArgs /\ [][NextTwoCalls]_vars

\* ------------------------------------------------------------------ claims
\* The current logical call is in an attempt that passed its deadline check.
InAttempt == pc \in {"backoff", "prepare", "send", "handle"}

\* The response in hand is one the classifier is asked about and answers with kind.
Classified(kind) == pc = "handle" /\ ~StatusRetry(response) /\ GetBody(response) = kind

\* A finished logical call does nothing more: the next step, if any, is a new call.
CallIsOver ==
    (pc = "done" /\ callsMade' = callsMade) => UNCHANGED <<netCalls, sleeps, outcome, now>>

\* C1 as stated: the wall-clock time spent since the first attempt of a logical
\* call never exceeds retry_timeout.
C1_TotalTimeWithinRetryTimeout ==
    first_request_time # None => now - first_request_time <= Seconds(retry_timeout)

\* C1 as amended: every attempt that goes on to sleep or to issue its network call
\* passed a deadline check that read elapsed <= retry_timeout; the time the attempt
\* then spends is not limited by retry_timeout.
C1_AttemptsStartWithinRetryTimeout ==
    InAttempt => /\ first_request_time # None
                 /\ elapsed <= Seconds(retry_timeout)
                 /\ elapsed <= now - first_request_time

\* A retry that passed its deadline check and whose network call returned after
\* retry_timeout had gone by.
C1_Witness ==
    /\ pc = "handle"
    /\ retry_counter > 0
    /\ elapsed <= Seconds(retry_timeout)
    /\ now - first_request_time > Seconds(retry_timeout)

\* C2 as stated: against a server that answers N retriable statuses and then a
\* success, the logical call returns the success body after exactly N + 1 network
\* calls.
C2_ScriptedCallSucceeds ==
    (pc = "done" /\ server.scripted /\ ~dry_run)
        => (outcome = "Success" /\ netCalls = server.failures + 1)

\* C2 as amended: against such a server the logical call returns the success body
\* after exactly N + 1 network calls, unless one of its deadline checks reads
\* elapsed > retry_timeout; it then fails with Timeout after at most N network
\* calls, all of them answered by a retriable status.
C2_ScriptedCallSucceedsOrTimesOut ==
    (pc = "done" /\ server.scripted /\ ~dry_run)
        => \/ /\ outcome = "Success"
              /\ netCalls = server.failures + 1
              /\ retry_counter = server.failures
           \/ /\ outcome = "Timeout"
              /\ elapsed > Seconds(retry_timeout)
              /\ netCalls <= server.failures
              /\ netCalls = retry_counter

\* 503, 503, 200: the success body after three network calls.
C2_Witness ==
    /\ pc = "done"
    /\ server = Scripted(2)
    /\ outcome = "Success"
    /\ netCalls = 3
    /\ sleeps = 2

\* C3: with retry_timeout = 0 the first deadline check of a logical call fails with
\* Timeout and no network call is issued.
C3_ZeroBudgetFailsFast ==
    (retry_timeout = 0 /\ pc \notin {"idle", "enter"})
        => (pc = "done" /\ outcome = "Timeout" /\ netCalls = 0)

\* C4: a deadline check that reads elapsed > retry_timeout ends the logical call
\* with Timeout on the spot, on the first attempt as on a retry, and neither a
\* sleep nor a network call follows.
C4_ExceededDeadlineIsTimeout ==
    [][ /\ (pc = "enter" /\ now' - first_request_time' > Seconds(retry_timeout))
            => /\ pc' = "done"
               /\ outcome' = "Timeout"
               /\ UNCHANGED <<netCalls, sleeps, retry_counter>>
        /\ CallIsOver ]_vars

\* The deadline check of a second retry failed.
C4_Witness ==
    /\ pc = "done"
    /\ outcome = "Timeout"
    /\ netResult = "response"
    /\ retry_counter = 2
    /\ netCalls = 2
    /\ sleeps = 1

\* C5: with retry_over_query_limit false, a response classified as OverQueryLimit
\* ends the logical call with OverQueryLimit: no retry, no sleep and no network
\* call after the one that brought it.
C5_OverQueryLimitPropagates ==
    [][ /\ (Classified("OverQueryLimit") /\ ~retry_over_query_limit)
            => /\ pc' = "done"
               /\ outcome' = "OverQueryLimit"
               /\ netCalls' = retry_counter + 1
               /\ sleeps' = retry_counter
               /\ UNCHANGED <<netCalls, sleeps, retry_counter, warnings, now>>
        /\ (pc = "done" /\ outcome = "OverQueryLimit" /\ callsMade' = callsMade)
            => UNCHANGED <<netCalls, sleeps, outcome, now>> ]_vars

\* The first response is over quota: one network call, no sleep.
C5_Witness ==
    /\ pc = "done"
    /\ outcome = "OverQueryLimit"
    /\ ~retry_over_query_limit
    /\ netCalls = 1
    /\ sleeps = 0
    /\ warnings = 0

\* C6: with retry_over_query_limit true, a response classified as OverQueryLimit
\* is retried like any retriable request: the attempt counter grows by one and
\* the executor starts over at the deadline check with the same first request
\* time; a retry whose deadline check passes sleeps and then issues a network call.
C6_OverQueryLimitRetried ==
    [][ /\ (Classified("OverQueryLimit") /\ retry_over_query_limit)
            => /\ pc' = "enter"
               /\ retry_counter' = retry_counter + 1
               /\ UNCHANGED <<first_request_time, netCalls, sleeps, now, outcome>>
        /\ (pc = "enter" /\ retry_counter > 0 /\ pc' # "done") => pc' = "backoff"
        /\ (pc = "backoff" /\ retry_counter > 0)
            => (pc' = "prepare" /\ sleeps' = sleeps + 1 /\ now' > now)
        /\ (pc = "prepare" /\ retry_counter > 0) => pc' = "send"
        /\ (pc = "send") => netCalls' = netCalls + 1 ]_vars

\* An over-quota response was retried: the retry slept and its network call was
\* answered.
C6_Witness ==
    /\ pc = "handle"
    /\ retry_over_query_limit
    /\ lastRetry = "OverQueryLimit"
    /\ retry_counter = 1
    /\ netCalls = 2
    /\ sleeps = 1

\* C7: when the classifier raises RouterApiError the logical call ends without a
\* retry: it returns None if skip_api_error is set and raises RouterApiError if
\* it is not.
C7_ApiErrorSkippedOrRaised ==
    [][ Classified("RouterApiError")
            => /\ pc' = "done"
               /\ outcome' = (IF skip_api_error THEN "None" ELSE "RouterApiError")
               /\ UNCHANGED <<retry_counter, netCalls, sleeps, now>> ]_vars

\* An API error was swallowed: the call returned None.
C7_Witness ==
    /\ pc = "done"
    /\ skip_api_error
    /\ netResult = "response"
    /\ response.status = 400
    /\ response.body = "json"
    /\ outcome = "None"

C9_TransportTimeoutIsTimeout ==
    [][ /\ (pc = "send" /\ netResult' = "timeout")
            => /\ pc' = "done"
               /\ outcome' = "Timeout"
               /\ netCalls' = netCalls + 1
               /\ UNCHANGED <<retry_counter, sleeps, warnings>>
        /\ (pc = "done" /\ netResult = "timeout" /\ callsMade' = callsMade)
            => UNCHANGED <<netCalls, sleeps, outcome, retry_counter>> ]_vars

\* The network call of a retry timed out with time left before the deadline.
C9_Witness ==
    /\ pc = "done"
    /\ netResult = "timeout"
    /\ outcome = "Timeout"
    /\ retry_counter = 1
    /\ netCalls = 2
    /\ now - first_request_time < Seconds(retry_timeout)

\* C10: a network call that fails at transport level for a reason other than a
\* timeout ends the logical call with TransportError.
C10_TransportErrorRaised ==
    (pc = "done" /\ netResult = "error") => outcome = "TransportError"

\* C11: a classified error other than RouterApiError and RetriableRequest ends
\* the logical call with that very error: no retry, no warning, no sleep and no
\* network call after it.
C11_OtherErrorsAreFatal ==
    [][ /\ \A kind \in {"RouterServerError", "JSONParseError", "RouterError"} :
               Classified(kind)
                   => /\ pc' = "done"
                      /\ outcome' = kind
                      /\ UNCHANGED <<retry_counter, netCalls, sleeps, warnings, now>>
        /\ (pc = "done" /\ outcome \in {"RouterServerError", "JSONParseError", "RouterError"}
               /\ callsMade' = callsMade)
            => UNCHANGED <<netCalls, sleeps, outcome, retry_counter>> ]_vars

\* A retry was answered by a non-retriable server error, which ended the call.
C11_Witness ==
    /\ pc = "done"
    /\ outcome = "RouterServerError"
    /\ response.status = 500
    /\ retry_counter = 1
    /\ netCalls = 2
    /\ sleeps = 1

\* The time the current attempt slept: what the clock shows after the sleep less
\* what the deadline check read before it.
LastSleep == (now - first_request_time) - elapsed

\* C14 as stated: no backoff sleep lasts longer than the configured timeout budget.
C14_SleepWithinTimeoutBudget ==
    (pc = "prepare" /\ retry_counter > 0) => LastSleep <= Seconds(retry_timeout)

\* C14 as amended: nothing blocks for ever, but a sleep is not bounded by
\* retry_timeout: the sleep before retry n lasts less than 1.5 * 1.5^(n-1)
\* seconds and starts only after a deadline check that read
\* elapsed <= retry_timeout, the first attempt does not sleep, and a network call
\* lasts no longer than the transport allows.
C14_SleepsAndCallsAreFinite ==
    /\ (pc = "prepare" /\ retry_counter > 0)
        => /\ 2 * Pow(2, retry_counter - 1) * LastSleep
                  < 3 * TicksPerSecond * Pow(3, retry_counter - 1)
           /\ elapsed <= Seconds(retry_timeout)
    /\ (pc = "prepare" /\ retry_counter = 0) => LastSleep = 0
    /\ (pc = "handle")
        => 2 * Pow(2, retry_counter) * (LastSleep - MaxNetTicks)
               < 3 * TicksPerSecond * Pow(3, retry_counter)

\* A retry slept longer than the whole of a nonzero retry_timeout.
C14_Witness ==
    /\ pc = "prepare"
    /\ retry_counter > 0
    /\ retry_timeout > 0
    /\ LastSleep > Seconds(retry_timeout)

\* C15: over a logical call the warnings emitted are one per retry, plus one if
\* the call ended by swallowing a RouterApiError; success and propagated errors
\* add none.
C15_WarningsCountRetriesAndSkips ==
    warnings = retry_counter
                 + (IF pc = "done" /\ outcome = "None" /\ netResult = "response"
                    THEN 1 ELSE 0)

\* One retry, then an API error swallowed: two warnings.
C15_Witness ==
    /\ pc = "done"
    /\ outcome = "None"
    /\ netResult = "response"
    /\ retry_counter = 1
    /\ warnings = 2

\* C16: before the network call of retry n >= 1 the executor sleeps for
\* 0.5s * 1.5^(n-1) times a jitter factor in [0.5, 1.5), i.e. for at least
\* 0.25 * 1.5^(n-1) and less than 0.75 * 1.5^(n-1) seconds.
C16_SleepIsHalfSecondBased ==
    (pc = "prepare" /\ retry_counter > 0)
        => /\ LastSleep > 0
           /\ 4 * Pow(2, retry_counter - 1) * (LastSleep + 1)
                  > TicksPerSecond * Pow(3, retry_counter - 1)
           /\ 4 * Pow(2, retry_counter - 1) * LastSleep
                  < 3 * TicksPerSecond * Pow(3, retry_counter - 1)

\* C18: a response with a retriable status is retried on the status alone,
\* whatever its body and whatever skip_api_error and retry_over_query_limit say.
C18_RetriableStatusRetried ==
    [][ (pc = "handle" /\ response.status \in RETRIABLE_STATUSES)
            => /\ pc' = "enter"
               /\ retry_counter' = retry_counter + 1
               /\ lastRetry' = "status"
               /\ UNCHANGED <<outcome, first_request_time, netCalls>> ]_vars

\* A 503 whose body is not JSON was retried, with skip_api_error set and
\* retry_over_query_limit not.
C18_Witness ==
    /\ pc = "enter"
    /\ retry_counter = 1
    /\ lastRetry = "status"
    /\ response = [status |-> 503, body |-> "garbage"]
    /\ skip_api_error
    /\ ~retry_over_query_limit

\* C19: a response classified as a RetriableRequest other than OverQueryLimit is
\* retried whatever retry_over_query_limit says.
C19_RetriableRequestRetried ==
    [][ Classified("RetriableRequest")
            => /\ pc' = "enter"
               /\ retry_counter' = retry_counter + 1
               /\ UNCHANGED <<outcome, first_request_time, netCalls>> ]_vars

\* A throttled request was retried with retry_over_query_limit off.
C19_Witness ==
    /\ pc = "handle"
    /\ ~retry_over_query_limit
    /\ lastRetry = "RetriableRequest"
    /\ retry_counter = 1
    /\ netCalls = 2

\* Where attempt retry_counter of the current logical call stands: the network
\* calls and sleeps made so far.
AttemptsInSequence ==
    /\ pc \in {"enter", "backoff"}
        => (netCalls = retry_counter
            /\ sleeps = IF retry_counter > 0 THEN retry_counter - 1 ELSE 0)
    /\ pc \in {"prepare", "send"} => (netCalls = retry_counter /\ sleeps = retry_counter)
    /\ pc = "handle" => (netCalls = retry_counter + 1 /\ sleeps = retry_counter)

\* C20: a logical call runs its attempts one after the other, each in the order
\* deadline check, sleep (retries only), network call, classification; the next
\* attempt starts only when the response of the current one has been handled.
C20_AttemptsAreSequential ==
    [][ /\ pc = "enter"
            => (pc' \in {"backoff", "done"} /\ UNCHANGED <<retry_counter, netCalls, sleeps>>)
        /\ pc = "backoff"
            => (pc' = "prepare" /\ UNCHANGED <<retry_counter, netCalls>>)
        /\ pc = "prepare"
            => (pc' \in {"send", "done"} /\ UNCHANGED <<retry_counter, netCalls, sleeps, now>>)
        /\ pc = "send"
            => (pc' \in {"handle", "done"} /\ UNCHANGED <<retry_counter, sleeps>>)
        /\ pc = "handle"
            => /\ \/ pc' = "enter" /\ retry_counter' = retry_counter + 1
                  \/ pc' = "done" /\ retry_counter' = retry_counter
               /\ UNCHANGED <<netCalls, sleeps, now>>
        /\ AttemptsInSequence' ]_vars

\* The third attempt of a call got its response after two sleeps.
C20_Witness ==
    /\ pc = "handle"
    /\ retry_counter = 2
    /\ netCalls = 3
    /\ sleeps = 2

\* C12: calls made at the same time on one client do not disturb each other:
\* every network call of an operation goes to that operation's own URL.
C12_ConcurrentCallsIndependent ==
    \A t \in Threads :
        th[t].op # "none" => th[t].url \in {"none", Endpoint(th[t].op)}

\* C13: the configuration of the client, base_url included, is the one set at
\* construction whatever operations are run.
C13_ConfigurationFixed ==
    [][UNCHANGED <<base_url, retry_timeout, retry_over_query_limit, skip_api_error>>]_vars

C21_DeadlineCheckedOncePerAttempt ==
    [][ /\ pc \in {"backoff", "prepare"}
            => /\ UNCHANGED <<elapsed, first_request_time>>
               /\ ~(pc' = "done" /\ outcome' = "Timeout")
        /\ (pc = "backoff" /\ retry_counter > 0)
            => /\ pc' = "prepare"
               /\ sleeps' = sleeps + 1
               /\ now' >= now + SleepTicks(retry_counter, 0)
        /\ (pc = "prepare" /\ retry_counter > 0) => pc' = "send"
        /\ pc = "send" => netCalls' = netCalls + 1 ]_vars

\* A retry is about to issue its network call although more than a nonzero
\* retry_timeout has gone by since the first attempt.
C21_Witness ==
    /\ pc = "send"
    /\ retry_counter > 0
    /\ retry_timeout > 0
    /\ elapsed <= Seconds(retry_timeout)
    /\ now - first_request_time > Seconds(retry_timeout)

\* C22: the first attempt does not sleep and every retry sleeps once before its
\* network call: a logical call that issued k network calls slept k - 1 times.
C22_OneSleepPerRetry ==
    /\ retry_counter = 0 => sleeps = 0
    /\ pc = "send" => sleeps = netCalls
    /\ pc = "handle" => sleeps = netCalls - 1
    /\ (pc = "done" /\ netCalls > 0) => sleeps = netCalls - 1

\* A logical call that returned a body from its third network call, after two
\* sleeps.
C22_Witness ==
    /\ pc = "done"
    /\ outcome = "Success"
    /\ netCalls = 3
    /\ sleeps = 2

\* C23: a network call that returns a response records its request on the client
\* and nothing else does, so a call that returned a body leaves the request of
\* its last attempt; a dry run and a transport failure leave the record alone.
C23_RequestRecordedOnResponse ==
    [][ /\ (pc = "send" /\ pc' = "handle") => req' = <<callsMade, retry_counter>>
        /\ ~(pc = "send" /\ pc' = "handle") => req' = req
        /\ (pc' = "done" /\ outcome' = "Success")
               => req' = <<callsMade', retry_counter'>> ]_vars

\* The first retry ended in a transport timeout: the recorded request is still
\* the one of the first attempt.
C23_Witness ==
    /\ pc = "done"
    /\ netResult = "timeout"
    /\ retry_counter = 1
    /\ req = <<callsMade, 0>>

\* C26: the attempt counter starts at 0 and grows by one per retry whatever the
\* cause, so the k-th network call is issued with counter k - 1, and
\* first_request_time is set by the first invocation and kept by every retry.
C26_CounterAndFirstRequestTime ==
    [][ /\ (pc \in {"idle", "done"} /\ pc' = "enter")
            => (retry_counter' = 0 /\ first_request_time' = None)
        /\ pc = "enter"
            => /\ retry_counter > 0 => first_request_time # None
               /\ first_request_time' =
                      IF first_request_time = None THEN now ELSE first_request_time
        /\ pc \in {"backoff", "prepare", "send", "handle"} => UNCHANGED first_request_time
        /\ (pc = "send" /\ pc' = "handle") => netCalls' = retry_counter + 1
        /\ (pc = "handle" /\ pc' = "enter") => retry_counter' = retry_counter + 1 ]_vars

\* The second network call, issued with counter 1 after a retry on a status, got
\* a response that is retried as a RetriableRequest.
C26_Witness ==
    /\ pc = "handle"
    /\ retry_counter = 1
    /\ netCalls = 2
    /\ lastRetry = "status"
    /\ ~StatusRetry(response)
    /\ GetBody(response) = "RetriableRequest"

\* The least time slept before the deadline check of retry n.
RECURSIVE SleptBefore(_)
SleptBefore(n) == IF n <= 1 THEN 0 ELSE SleptBefore(n - 1) + SleepTicks(n - 1, 0)

\* C27: against a server whose every answer is retried, a logical call ends in
\* Timeout, and the number of its network calls is bounded by retry_timeout
\* alone: the sleeps before the last attempt issued fit in retry_timeout.
C27_AlwaysRetriedCallTimesOut ==
    /\ [](netCalls > 0 => SleptBefore(netCalls - 1) <= Seconds(retry_timeout))
    /\ (pc = "enter" /\ ~dry_run) ~> (pc = "done" /\ outcome = "Timeout")

\* Three network calls all answered by a retried response, then Timeout, with
\* retry_timeout = 1 s.
C27_Witness ==
    /\ pc = "done"
    /\ outcome = "Timeout"
    /\ retry_timeout = 1
    /\ netCalls = 3
    /\ warnings = 3

\* The options of the current attempt have been built.
Prepared == pc \in {"send", "handle"} \/ (pc = "done" /\ method # "none")

\* C24: the method is POST exactly when post_params is given; a POST carries
\* post_params as JSON when the configured Content-Type is application/json and
\* as form data otherwise, one of the two and never both.
C24_MethodAndEncoding ==
    method # "none"
        => /\ method = "POST" <=> post_params
           /\ method = "POST"
                => LET json == "json" \in DOMAIN final_requests_kwargs
                       data == "data" \in DOMAIN final_requests_kwargs
                       merged == MergeKwargs(self_requests_kwargs, requests_kwargs)
                   IN /\ json # data
                      /\ json <=> ("headers" \in DOMAIN merged
                                      /\ merged["headers"] = "application/json")
           /\ method = "GET" => DOMAIN final_requests_kwargs \cap {"json", "data"} = {}

\* C25: the options of an attempt hold every key of the client-level and of the
\* request-level options, with the request-level value where both have the key.
C25_RequestOptionsOverride ==
    Prepared
        => \A k \in DOMAIN self_requests_kwargs \cup DOMAIN requests_kwargs :
               /\ k \in DOMAIN final_requests_kwargs
               /\ final_requests_kwargs[k] =
                      IF k \in DOMAIN requests_kwargs
                      THEN requests_kwargs[k]
                      ELSE self_requests_kwargs[k]

\* Client and request both set proxies, to different values; only the client
\* sets headers.
C25_Witness ==
    /\ pc = "send"
    /\ "proxies" \in DOMAIN self_requests_kwargs
    /\ "proxies" \in DOMAIN requests_kwargs
    /\ self_requests_kwargs["proxies"] # requests_kwargs["proxies"]
    /\ final_requests_kwargs["proxies"] = requests_kwargs["proxies"]
    /\ "headers" \notin DOMAIN requests_kwargs
    /\ final_requests_kwargs["headers"] = self_requests_kwargs["headers"]

\* C28: a retry is the call of its first attempt again: path, get_params,
\* post_params and request-level options are those of the first attempt, hence so
\* are the method and the options sent.
C28_RetryRepeatsRequest ==
    [][ /\ pc \in {"enter", "backoff", "prepare", "send", "handle"}
            => UNCHANGED <<url, get_params, post_params, requests_kwargs, self_requests_kwargs>>
        /\ (pc = "prepare" /\ pc' = "send")
            => /\ method' = RequestsMethod(post_params)
               /\ retry_counter > 0 => UNCHANGED <<method, final_requests_kwargs>> ]_vars

\* The first retry of a POST with request-level options is about to be sent.
C28_Witness ==
    /\ pc = "send"
    /\ retry_counter = 1
    /\ post_params
    /\ method = "POST"
    /\ url = "/calculateisoline.json"
    /\ requests_kwargs # EmptyKwargs

\* C29: in sequential use every network call of an operation, retries included,
\* is sent to the base URL of that operation, whatever ran before.
C29_SequentialCallsReachOwnEndpoint ==
    \A t \in Threads :
        /\ th[t].pc = "send" => base_url = Endpoint(th[t].op)
        /\ th[t].url # "none" => th[t].url = Endpoint(th[t].op)

\* isochrones, run after distance_matrix had returned, sent its call and a retry
\* of it to the isoline host.
C29_Witness ==
    \E t, u \in Threads :
        /\ th[u].pc = "returned"
        /\ th[u].op = "distance_matrix"
        /\ th[u].url = "matrix.route.api.here.com"
        /\ th[t].pc = "send"
        /\ th[t].op = "isochrones"
        /\ th[t].retry_counter = 1
        /\ th[t].url = "isoline.route.api.here.com"

\* Some index of the list is not one of coordinates.
NotAnIndex(ix) ==
    \E i \in 1..Len(ix.idx) :
        ix.idx[i] \notin -Len(Coordinates)..(Len(Coordinates) - 1)

\* C30: distance_matrix raises TypeError for sources or destinations that is
\* None and IndexError for an index outside coordinates, sources first, and in
\* each of these cases the executor is not invoked and no request is sent.
C30_MatrixIndicesValidated ==
    \A t \in Threads :
        th[t].op = "distance_matrix"
            => LET src == th[t].sources
                   dst == th[t].destinations
                   srcFine == src.given /\ ~NotAnIndex(src)
                   raised(e) == /\ th[t].pc = "returned"
                                /\ th[t].result = e
                                /\ th[t].invoked = 0
                                /\ th[t].url = "none"
                                /\ req = NoRequest
               IN /\ ~src.given => raised("TypeError")
                  /\ (src.given /\ NotAnIndex(src)) => raised("IndexError")
                  /\ (srcFine /\ ~dst.given) => raised("TypeError")
                  /\ (srcFine /\ dst.given /\ NotAnIndex(dst)) => raised("IndexError")

\* destinations holds the index just past the last coordinate: IndexError, the
\* executor not invoked.
C30_Witness ==
    /\ th["A"].pc = "returned"
    /\ th["A"].op = "distance_matrix"
    /\ th["A"].sources = Indices(<<0, -1>>)
    /\ th["A"].destinations = Indices(<<1, Len(Coordinates)>>)
    /\ th["A"].result = "IndexError"
    /\ th["A"].invoked = 0

\* The entries are ordered by startIndex.
IsOrdered(mtx) == \A i \in 1..(Len(mtx) - 1) : mtx[i].startIndex <= mtx[i + 1].startIndex

\* The k-th smallest startIndex among the entries, and the travel times of the
\* entries of one startIndex in their order.
StartIndices(mtx) == {mtx[i].startIndex : i \in 1..Len(mtx)}
KthStartIndex(mtx, k) ==
    CHOOSE s \in StartIndices(mtx) : Cardinality({x \in StartIndices(mtx) : x < s}) = k - 1
RowOf(mtx, s) ==
    LET entries == SelectSeq(mtx, LAMBDA obj : obj.startIndex = s)
    IN [i \in 1..Len(entries) |-> entries[i].travelTime]
RowsByStartIndex(mtx) ==
    [k \in 1..Cardinality(StartIndices(mtx)) |-> RowOf(mtx, KthStartIndex(mtx, k))]

\* C31: for a non-empty matrixEntry list ordered by startIndex, a single entry
\* included, _parse_matrix_json returns durations with one row for each distinct
\* startIndex, in order, each row holding the entries of that startIndex in
\* their order.
C31_RowPerStartIndex ==
    (matrix # NotParsed /\ mtx_objects # <<>> /\ IsOrdered(mtx_objects))
        => matrix = Durations(RowsByStartIndex(mtx_objects))

\* C34: make_routing_mode succeeds for every RoutingMode, and for one made
\* without features it gives 'mode_type;mode_transport_type', followed by a
\* 'traffic:...' segment exactly when mode_traffic is given, and no features
\* segment.
C34_ModeWithoutFeatures ==
    routing_mode # NotFormatted =>
        /\ routing_mode.raised = "none"
        /\ ~mode.has_features =>
               routing_mode.segments =
                   IF mode.mode_traffic = NoTraffic
                   THEN <<Plain(mode.mode_type), Plain(mode.mode_transport_type)>>
                   ELSE <<Plain(mode.mode_type), Plain(mode.mode_transport_type),
                          <<<<"traffic", mode.mode_traffic>>>> >>

HasBody(kw) == "json" \in DOMAIN kw \/ "data" \in DOMAIN kw

\* C32: no step of a request changes self.requests_kwargs, nor the
\* requests_kwargs the caller passed while its call runs; neither ever holds a
\* json or data entry, and the merged options of a call without post_params
\* hold none either, whatever call was made before.
C32_OptionsNotModified ==
    /\ [][/\ self_requests_kwargs' = self_requests_kwargs
          /\ pc \notin {"idle", "done"} => requests_kwargs' = requests_kwargs]_vars
    /\ [](/\ ~HasBody(self_requests_kwargs)
          /\ ~HasBody(requests_kwargs)
          /\ ~post_params => ~HasBody(final_requests_kwargs))

C32_Witness ==
    /\ callsMade = 2
    /\ req[1] = 1
    /\ ~post_params
    /\ pc = "send"
    /\ "headers" \in DOMAIN requests_kwargs
    /\ final_requests_kwargs = MergeKwargs(self_requests_kwargs, requests_kwargs)
====
